---- MODULE Spec2Model ----
(***************************************************************************)
(* The API client facade of the analytics dashboard (services/api.ts):     *)
(* the session token held by ApiService, its copy in localStorage, the     *)
(* axios request and response interceptors, and the operations that send   *)
(* one request each.  The callers of the facade and the backend are the    *)
(* environment: any public method may be called at any time, and the       *)
(* backend may answer a request with any outcome.                          *)
(*                                                                         *)
(* JavaScript runs one task at a time.  The arrival of a response is one   *)
(* task: the response interceptor runs in it, and the continuation of the  *)
(* operation that awaited the request runs in the microtasks of the same   *)
(* task.  `running` holds the request whose response is being handled;     *)
(* while it is set no other task runs.                                     *)
(***************************************************************************)
EXTENDS Naturals, FiniteSets, Sequences, TLC

\* ---------------------------------------------------------------- bounds
\* Requests issued between two page loads.
MaxReq == 2

\* ------------------------------------------------------------ value sets
\* An optional value: None is null / undefined, Some(v) a present value.
None == <<>>
Some(v) == <<v>>

\* Strings a token can be.  The empty string is a string the backend can
\* return and localStorage can hold; it is falsy in JavaScript.
Tokens == {"", "t1", "t2"}

OptTokens == {None} \cup {Some(t) : t \in Tokens}

\* The operations of ApiService that the pages and the App call.
Ops == {"login", "healthCheck", "resolveAnomaly"}

\* What window.location can point at.
Paths == {"/login", "/dashboard"}

\* HTTP error statuses the backend answers with.
ErrorStatuses == {401, 403}

\* An AxiosError: with a response (and its status), or without one
\* (network failure, timeout after `timeout: 10000`).
StatusError(s) == [kind |-> "response", status |-> s]
NetworkError == [kind |-> "network", status |-> 0]
TimeoutError == [kind |-> "timeout", status |-> 0]
Errors == {StatusError(s) : s \in ErrorStatuses} \cup {NetworkError, TimeoutError}

\* Response bodies.  POST /auth/login answers an AuthResponse; the other
\* endpoints answer data the facade passes through.
Payloads == {"d1"}
AuthResponse(t) == [access_token |-> t, token_type |-> "bearer"]
Bodies(op) ==
    IF op = "login" THEN {AuthResponse(t) : t \in Tokens}
    ELSE {[payload |-> p] : p \in Payloads}

VARIABLES
    token,       \* ApiService.token
    storage,     \* localStorage entry 'auth_token'
    location,    \* window.location.href (path)
    navPending,  \* a hard navigation was started by assigning location.href
    reqs,        \* the requests of this page load, by id
    running,     \* the request whose response is being handled, or None
    cleared,     \* history: clearToken ran and setToken has not run since
    lastSet,     \* history: token of the last setToken not undone by
                 \* clearToken or a 401 interception
    fresh,       \* history: the page was loaded again and nothing has
                 \* happened since the ApiService was constructed
    isAuthenticated,  \* App state: None (null), Some(TRUE) or Some(FALSE)
    isLoading,        \* App state: the startup check has not finished
    signingIn,        \* Login state isLoading: a sign-in is under way
    route,            \* the router's location
    awaiting,         \* for each request of `reqs`, the caller awaiting it
    mounted,          \* the Settings page is on screen
    showAddForm,      \* Settings state showAddForm
    editingSource,    \* Settings state editingSource (the id of the source)
    formData,         \* Settings state formData
    alertOpen,        \* the alert() of handleSubmit is on screen
    createMutation,   \* createMutation: its call, or how the last one ended
    updateMutation,   \* updateMutation: its call, or how the last one ended
    deleteMutation,   \* deleteMutation: its call, or how the last one ended
    dataSources,      \* useQuery('data-sources'): data
    queryError,       \* useQuery('data-sources'): error
    isInvalidated,    \* the query was invalidated and not fetched since
    fetching,         \* the getDataSources call under way, if any
    sources,          \* the backend: ids of the data sources it holds
    nextId,           \* the backend: the id it assigns next
    anomaliesOpen,    \* the Anomalies page is on screen
    anomalies,        \* the backend: for each anomaly, whether it is resolved
    anomalyList,      \* useQuery(['anomalies', filters]): data
    anomalyError,     \* useQuery(['anomalies', filters]): error
    anomalyFetch,     \* the getAnomalies call under way, if any
    resolveMutation,  \* resolveMutation: its call, or how the last one ended
    chatOpen,         \* the AnalyticsChat page is on screen
    messages,         \* ChatInterface state messages
    input,            \* ChatInterface state input
    chatIsLoading,    \* ChatInterface state isLoading
    chatPending,      \* the processConversationalQuery calls under way
    insights,         \* AnalyticsChat state insights
    generated,        \* history: insights generated since the list was
                      \* last empty by construction or by clearInsights
    data,             \* AnomalyChart prop data: the score of each anomaly
    scoreRanges       \* the counts of the distribution chart last rendered

\* The state of the App and of its Login view.
appVars == <<isAuthenticated, isLoading, signingIn, route, awaiting>>

\* The state outside the ApiService, which the facade leaves alone.
settingsVars == <<mounted, showAddForm, editingSource, formData, alertOpen,
                  createMutation, updateMutation, deleteMutation, dataSources,
                  queryError, isInvalidated, fetching, sources, nextId>>

\* The state of the Anomalies page and of the anomalies of the backend.
anomalyVars == <<anomaliesOpen, anomalies, anomalyList, anomalyError,
                 anomalyFetch, resolveMutation>>

\* The state of the AnalyticsChat page and of the AnomalyChart, of the
\* pages other than Settings, and of all pages.
chatVars == <<chatOpen, messages, input, chatIsLoading, chatPending,
              insights, generated>>
chartVars == <<data, scoreRanges>>
otherViews == <<anomalyVars, chatVars, chartVars>>
viewVars == <<settingsVars, otherViews>>

pageVars == <<appVars, viewVars>>

vars == <<token, storage, location, navPending, reqs, running, cleared, lastSet,
          fresh, pageVars>>

\* ----------------------------------------------------- ApiService pieces
\* `if (this.token)`: null and the empty string are falsy.
Truthy(tok) == tok # None /\ tok[1] # ""

\* The request interceptor without its `if (this.token)` guard: the template
\* string renders a null token as "null".
RequestInterceptorNoGuard(tok) ==
    Some([scheme |-> "Bearer",
          credentials |-> IF tok = None THEN "null" ELSE tok[1]])

\* Request interceptor: the Authorization header of the outgoing request.
RequestInterceptor(tok) ==
    IF Truthy(tok) THEN Some([scheme |-> "Bearer", credentials |-> tok[1]])
    ELSE None

\* The test widened to every error that has a response.
IsUnauthorizedAnyStatus(err) == err.kind = "response"

\* `error.response?.status === 401`
IsUnauthorized(err) == err.kind = "response" /\ err.status = 401

\* A constructor that does not load the token.
LoadTokenNone(stored) == None

\* this.token = localStorage.getItem('auth_token') in the constructor.
LoadToken(stored) == stored

\* resolveAnomaly written like the other operations: return response.data.
ReturnValueData(op, body) == [kind |-> "data", data |-> body]

\* What an operation returns once its request has succeeded.
ReturnValue(op, body) ==
    IF op = "resolveAnomaly" THEN [kind |-> "true"]
    ELSE [kind |-> "data", data |-> body]

\* setItem / removeItem under another key: the entry stays as it is.
SetItemWrongKey(t) == storage
RemoveItemWrongKey == storage

\* localStorage.setItem('auth_token', t) and
\* localStorage.removeItem('auth_token'): the entry afterwards.
SetItem(t) == Some(t)
RemoveItem == None

\* A pending request as axios holds it: the operation that issued it, the
\* Authorization header the request interceptor gave it, and how far it is:
\*   "sent"       on the wire
\*   "resolving"  the response interceptor passed `response` on,
\*   "rejecting"  the response interceptor was handed the failure `cause`
\*                and rejected with `error`,
\*                and in both the operation's continuation has yet to run.
NewRequest(op, tok) ==
    [op |-> op, auth |-> RequestInterceptor(tok), st |-> "sent",
     response |-> None, cause |-> None, error |-> None]

\* A settled call: the request itself is gone, what is left is what the
\* caller of the operation got,
\*   "resolved"   the operation returned `result`
\*   "rejected"   the operation threw `error`
Resolved(op, value) ==
    [op |-> op, st |-> "resolved", error |-> None, result |-> Some(value)]
Rejected(op, err) ==
    [op |-> op, st |-> "rejected", error |-> Some(err), result |-> None]

Pending == {i \in DOMAIN reqs : reqs[i].st \in {"sent", "resolving", "rejecting"}}

InFlight == {i \in DOMAIN reqs : reqs[i].st = "sent"}

\* useState({ name: '', type: 'logs', config: '{}', enabled: true })
DefaultForm == [name |-> "", type |-> "logs", config |-> "{}", enabled |-> TRUE]

\* The backend holds MaxAnomalies anomalies.
MaxAnomalies == 2
AnomalyIds == 1..MaxAnomalies

\* The Anomalies page is not on screen; no anomaly is resolved.
AnomaliesClosed ==
    /\ anomaliesOpen = FALSE
    /\ anomalies = [id \in AnomalyIds |-> FALSE]
    /\ anomalyList = None
    /\ anomalyError = FALSE
    /\ anomalyFetch = None
    /\ resolveMutation = None

\* The Settings page is not on screen and has not called the backend.
\* The first message of the chat, and the texts the chat answers with when
\* the reply is missing and when the call fails.
Hello == [sender |-> "bot", content |-> "Hello"]
Fallback == "I apologize"
Apology == "Sorry"

\* The AnalyticsChat page is not on screen.
ChatClosed ==
    /\ chatOpen = FALSE
    /\ messages = <<Hello>>
    /\ input = << >>
    /\ chatIsLoading = FALSE
    /\ chatPending = << >>
    /\ insights = << >>
    /\ generated = 0

\* No AnomalyChart is on screen.
ChartClosed ==
    /\ data = << >>
    /\ scoreRanges = << >>

SettingsClosed ==
    /\ mounted = FALSE
    /\ showAddForm = FALSE
    /\ editingSource = None
    /\ formData = DefaultForm
    /\ alertOpen = FALSE
    /\ createMutation = None
    /\ updateMutation = None
    /\ deleteMutation = None
    /\ dataSources = None
    /\ queryError = FALSE
    /\ isInvalidated = FALSE
    /\ fetching = None
    /\ sources = {}
    /\ nextId = 1

Init ==
    /\ storage \in OptTokens
    /\ token = LoadToken(storage)
    /\ location \in Paths
    /\ navPending = FALSE
    /\ reqs = << >>
    /\ running = None
    /\ cleared = FALSE
    /\ lastSet = None
    /\ fresh = FALSE
    /\ isAuthenticated = None
    /\ isLoading = TRUE
    /\ signingIn = FALSE
    /\ route = "/"
    /\ awaiting = << >>
    /\ SettingsClosed
    /\ AnomaliesClosed
    /\ ChatClosed
    /\ ChartClosed

\* setToken(token)
SetToken(t) ==
    /\ running = None
    /\ token' = Some(t)
    /\ storage' = SetItem(t)
    /\ cleared' = FALSE
    /\ lastSet' = Some(t)
    /\ fresh' = FALSE
    /\ UNCHANGED pageVars
    /\ UNCHANGED <<location, navPending, reqs, running>>

\* clearToken() that forgets the persisted copy.
ClearTokenMemoryOnly ==
    /\ running = None
    /\ token' = None
    /\ cleared' = TRUE
    /\ lastSet' = None
    /\ fresh' = FALSE
    /\ UNCHANGED pageVars
    /\ UNCHANGED <<storage, location, navPending, reqs, running>>

\* clearToken()
ClearToken ==
    /\ running = None
    /\ token' = None
    /\ storage' = RemoveItem
    /\ cleared' = TRUE
    /\ lastSet' = None
    /\ fresh' = FALSE
    /\ UNCHANGED pageVars
    /\ UNCHANGED <<location, navPending, reqs, running>>

\* A request interceptor that takes the token from localStorage on every
\* call instead of from this.token.
SendReadsStorage(op) ==
    /\ running = None
    /\ Len(reqs) < MaxReq
    /\ reqs' = Append(reqs, NewRequest(op, storage))
    /\ fresh' = FALSE
    /\ UNCHANGED pageVars
    /\ UNCHANGED <<token, storage, location, navPending, running, cleared, lastSet>>

\* A caller invokes operation op: this.client.get/post/put/delete builds
\* the request and the request interceptor decorates it.
Send(op) ==
    /\ running = None
    /\ Len(reqs) < MaxReq
    /\ reqs' = Append(reqs, NewRequest(op, token))
    /\ fresh' = FALSE
    /\ UNCHANGED pageVars
    /\ UNCHANGED <<token, storage, location, navPending, running, cleared, lastSet>>

\* A success handler that tears the session down.
ReceiveClears(i, body) ==
    /\ running = None
    /\ i \in InFlight
    /\ body \in Bodies(reqs[i].op)
    /\ reqs' = [reqs EXCEPT ![i].st = "resolving", ![i].response = Some(body)]
    /\ running' = Some(i)
    /\ token' = None
    /\ storage' = None
    /\ lastSet' = None
    /\ fresh' = FALSE
    /\ UNCHANGED pageVars
    /\ UNCHANGED <<location, navPending, cleared>>

\* A 2xx response to request i arrives: the response interceptor's
\* success handler `(response) => response`.
Receive(i, body) ==
    /\ running = None
    /\ i \in InFlight
    /\ body \in Bodies(reqs[i].op)
    /\ reqs' = [reqs EXCEPT ![i].st = "resolving", ![i].response = Some(body)]
    /\ running' = Some(i)
    /\ fresh' = FALSE
    /\ UNCHANGED pageVars
    /\ UNCHANGED <<token, storage, location, navPending, cleared, lastSet>>

\* An error handler that tears down only when the 401 answers a request
\* that carried the token now in use.
FailIgnoresStale(i, err) ==
    /\ running = None
    /\ i \in InFlight
    /\ IF IsUnauthorized(err) /\ reqs[i].auth = RequestInterceptor(token)
       THEN /\ token' = None
            /\ storage' = RemoveItem
            /\ location' = "/login"
            /\ navPending' = TRUE
            /\ lastSet' = None
       ELSE UNCHANGED <<token, storage, location, navPending, lastSet>>
    /\ reqs' = [reqs EXCEPT ![i].st = "rejecting", ![i].cause = Some(err),
                            ![i].error = Some(err)]
    /\ running' = Some(i)
    /\ fresh' = FALSE
    /\ UNCHANGED pageVars
    /\ UNCHANGED cleared

\* Request i fails with err (an error status, no response, or a timeout):
\* the response interceptor's error handler.
Fail(i, err) ==
    /\ running = None
    /\ i \in InFlight
    /\ IF IsUnauthorized(err)
       THEN /\ token' = None
            /\ storage' = RemoveItem
            /\ location' = "/login"
            /\ navPending' = TRUE
            /\ lastSet' = None
       ELSE UNCHANGED <<token, storage, location, navPending, lastSet>>
    /\ reqs' = [reqs EXCEPT ![i].st = "rejecting", ![i].cause = Some(err),
                            ![i].error = Some(err)]
    /\ running' = Some(i)
    /\ fresh' = FALSE
    /\ UNCHANGED pageVars
    /\ UNCHANGED cleared

\* login() that returns the response without setToken.
ReturnNoStore(i) ==
    /\ running = Some(i)
    /\ reqs[i].st = "resolving"
    /\ reqs' = [reqs EXCEPT ![i] = Resolved(reqs[i].op,
                                             ReturnValue(reqs[i].op,
                                                         reqs[i].response[1]))]
    /\ running' = None
    /\ fresh' = FALSE
    /\ UNCHANGED pageVars
    /\ UNCHANGED <<token, storage, location, navPending, cleared, lastSet>>

\* The continuation of the operation after `await this.client...` when the
\* request succeeded: login performs setToken(response.data.access_token),
\* every operation returns its value.
Return(i) ==
    /\ running = Some(i)
    /\ reqs[i].st = "resolving"
    /\ LET body == reqs[i].response[1] IN
       /\ IF reqs[i].op = "login"
          THEN /\ token' = Some(body.access_token)
               /\ storage' = SetItem(body.access_token)
               /\ cleared' = FALSE
               /\ lastSet' = Some(body.access_token)
          ELSE UNCHANGED <<token, storage, cleared, lastSet>>
       /\ reqs' = [reqs EXCEPT ![i] = Resolved(reqs[i].op,
                                                ReturnValue(reqs[i].op, body))]
    /\ running' = None
    /\ fresh' = FALSE
    /\ UNCHANGED pageVars
    /\ UNCHANGED <<location, navPending>>

\* An error handler that does not return Promise.reject(error): the await
\* yields undefined and the operation resolves.
ThrowSwallowed(i) ==
    /\ running = Some(i)
    /\ reqs[i].st = "rejecting"
    /\ reqs' = [reqs EXCEPT ![i] = Resolved(reqs[i].op, [kind |-> "undefined"])]
    /\ running' = None
    /\ fresh' = FALSE
    /\ UNCHANGED pageVars
    /\ UNCHANGED <<token, storage, location, navPending, cleared, lastSet>>

\* An operation that sends its request again when it fails.
ThrowRetries(i) ==
    /\ running = Some(i)
    /\ reqs[i].st = "rejecting"
    /\ reqs' = [reqs EXCEPT ![i].st = "sent", ![i].cause = None,
                            ![i].error = None]
    /\ running' = None
    /\ fresh' = FALSE
    /\ UNCHANGED pageVars
    /\ UNCHANGED <<token, storage, location, navPending, cleared, lastSet>>

\* An operation that clears the token whenever its request fails.
ThrowClears(i) ==
    /\ running = Some(i)
    /\ reqs[i].st = "rejecting"
    /\ reqs' = [reqs EXCEPT ![i] = Rejected(reqs[i].op, reqs[i].error[1])]
    /\ running' = None
    /\ token' = None
    /\ storage' = None
    /\ lastSet' = None
    /\ fresh' = FALSE
    /\ UNCHANGED pageVars
    /\ UNCHANGED <<location, navPending, cleared>>

\* The continuation when the request failed: the await throws and the
\* operation's promise rejects with the interceptor's error.
Throw(i) ==
    /\ running = Some(i)
    /\ reqs[i].st = "rejecting"
    /\ reqs' = [reqs EXCEPT ![i] = Rejected(reqs[i].op, reqs[i].error[1])]
    /\ running' = None
    /\ fresh' = FALSE
    /\ UNCHANGED pageVars
    /\ UNCHANGED <<token, storage, location, navPending, cleared, lastSet>>

\* Client-side navigation by the router (Layout's links, navigate()).
Navigate(p) ==
    /\ running = None
    /\ ~navPending
    /\ p # location
    /\ location' = p
    /\ fresh' = FALSE
    /\ UNCHANGED pageVars
    /\ UNCHANGED <<token, storage, navPending, reqs, running, cleared, lastSet>>

\* The page is loaded again (a reload by the user, or the hard navigation
\* started by the 401 interception): the module is evaluated anew, a new
\* ApiService is constructed and the requests of the old page are gone.
Reload ==
    /\ running = None
    /\ token' = LoadToken(storage)
    /\ reqs' = << >>
    /\ navPending' = FALSE
    /\ fresh' = TRUE
    /\ UNCHANGED pageVars
    /\ UNCHANGED <<storage, location, running, cleared, lastSet>>

Next ==
    \/ \E t \in Tokens : SetToken(t)
    \/ ClearToken
    \/ \E op \in Ops : Send(op)
    \/ \E i \in DOMAIN reqs : \E body \in Bodies(reqs[i].op) : Receive(i, body)
    \/ \E i \in DOMAIN reqs : \E err \in Errors : Fail(i, err)
    \/ \E i \in DOMAIN reqs : Return(i)
    \/ \E i \in DOMAIN reqs : Throw(i)
    \/ \E p \in Paths : Navigate(p)
    \/ Reload

Spec == Init /\ [][Next]_vars

\* ------------------------------------------------- shared localStorage
\* localStorage belongs to the origin, not to the page: the ApiService of
\* another tab of the application writes the same 'auth_token' entry with
\* its own setToken, clearToken and 401 interception.  This page's
\* ApiService is not told.
OtherTab(s) ==
    /\ running = None
    /\ s # storage
    /\ storage' = s
    /\ fresh' = FALSE
    /\ UNCHANGED pageVars
    /\ UNCHANGED <<token, location, navPending, reqs, running, cleared, lastSet>>

\* The facade with the other tab.  The router's navigation plays no part,
\* and login and healthCheck stand for the operations.
TabOps == {"login", "healthCheck"}

NextTabs ==
    \/ \E t \in Tokens : SetToken(t)
    \/ ClearToken
    \/ \E op \in TabOps : Send(op)
    \/ \E i \in DOMAIN reqs : \E body \in Bodies(reqs[i].op) : Receive(i, body)
    \/ \E i \in DOMAIN reqs : \E err \in Errors : Fail(i, err)
    \/ \E i \in DOMAIN reqs : Return(i)
    \/ \E i \in DOMAIN reqs : Throw(i)
    \/ Reload
    \/ \E s \in OptTokens : OtherTab(s)

SpecTabs == Init /\ [][NextTabs]_vars

\* ------------------------------------------------------------- the App
\* The application as it runs: App mounts and checks the stored token,
\* the Login view signs in, Layout logs out and navigates, the pages call
\* the operations.  Here the callers of the facade are the ones in the code.

\* The paths of the <Route> elements inside <Layout>, and the paths a user
\* can enter ("/nowhere" stands for every path no route names).
ProtectedPaths == {"/dashboard", "/metrics", "/anomalies", "/logs", "/cicd",
                   "/tests", "/settings", "/chat"}
Routes == ProtectedPaths \cup {"/", "/login", "/nowhere"}

\* The operations the pages call.
PageOps == Ops \ {"login", "healthCheck"}

\* `isAuthenticated ? ... : ...`
IsAuth(auth) == auth = Some(TRUE)

\* A view that renders every page it is asked for, signed in or not.
ViewOpen(p, auth, loading) ==
    IF loading THEN "LoadingSpinner"
    ELSE IF p \in ProtectedPaths THEN p
         ELSE IF IsAuth(auth) THEN "Navigate /dashboard"
              ELSE IF p = "/login" THEN "Login" ELSE "Navigate /login"

\* What App renders for path p: the spinner while the startup check runs,
\* then the element of the first <Route> that matches.
View(p, auth, loading) ==
    IF loading THEN "LoadingSpinner"
    ELSE IF IsAuth(auth)
         THEN IF p \in ProtectedPaths THEN p ELSE "Navigate /dashboard"
         ELSE IF p = "/login" THEN "Login" ELSE "Navigate /login"

\* Where the router ends up for path p: a <Navigate replace> element moves
\* it to its target.
Resolve(p, auth) ==
    LET v == View(p, auth, FALSE) IN
    IF v = "Navigate /dashboard" THEN "/dashboard"
    ELSE IF v = "Navigate /login" THEN "/login"
    ELSE p

\* The address bar after the router moved to r: a hard navigation that is
\* under way still ends at its own target.
Address(r) == IF navPending THEN location ELSE r

InitApp ==
    /\ storage \in OptTokens
    /\ token = LoadToken(storage)
    /\ location \in Routes
    /\ navPending = FALSE
    /\ reqs = << >>
    /\ running = None
    /\ cleared = FALSE
    /\ lastSet = None
    /\ fresh = FALSE
    /\ isAuthenticated = None
    /\ isLoading = TRUE
    /\ signingIn = FALSE
    /\ route = location
    /\ awaiting = << >>
    /\ SettingsClosed
    /\ AnomaliesClosed
    /\ ChatClosed
    /\ ChartClosed

\* useEffect(() => { checkAuth() }, []) up to its await: with a stored token
\* setToken and healthCheck(), without one the else branch and finally.
CheckAuth ==
    /\ running = None
    /\ isLoading
    /\ reqs = << >>
    /\ IF Truthy(storage)
       THEN /\ token' = Some(storage[1])
            /\ storage' = SetItem(storage[1])
            /\ cleared' = FALSE
            /\ lastSet' = Some(storage[1])
            /\ reqs' = Append(reqs, NewRequest("healthCheck", token'))
            /\ awaiting' = Append(awaiting, "checkAuth")
            /\ UNCHANGED <<isAuthenticated, isLoading, route, location>>
       ELSE /\ isAuthenticated' = Some(FALSE)
            /\ isLoading' = FALSE
            /\ route' = Resolve(route, isAuthenticated')
            /\ location' = Address(route')
            /\ UNCHANGED <<token, storage, cleared, lastSet, reqs, awaiting>>
    /\ fresh' = FALSE
    /\ UNCHANGED viewVars
    /\ UNCHANGED <<navPending, running, signingIn>>

\* checkAuth after `await apiService.healthCheck()` returned.
CheckAuthOk(i) ==
    /\ running = Some(i)
    /\ reqs[i].st = "resolving"
    /\ awaiting[i] = "checkAuth"
    /\ reqs' = [reqs EXCEPT ![i] = Resolved(reqs[i].op,
                                             ReturnValue(reqs[i].op,
                                                         reqs[i].response[1]))]
    /\ running' = None
    /\ isAuthenticated' = Some(TRUE)
    /\ isLoading' = FALSE
    /\ route' = Resolve(route, isAuthenticated')
    /\ location' = Address(route')
    /\ fresh' = FALSE
    /\ UNCHANGED viewVars
    /\ UNCHANGED <<token, storage, navPending, cleared, lastSet, signingIn,
                   awaiting>>

\* A catch block without apiService.clearToken().
CheckAuthFailedKeepsToken(i) ==
    /\ running = Some(i)
    /\ reqs[i].st = "rejecting"
    /\ awaiting[i] = "checkAuth"
    /\ reqs' = [reqs EXCEPT ![i] = Rejected(reqs[i].op, reqs[i].error[1])]
    /\ running' = None
    /\ isAuthenticated' = Some(FALSE)
    /\ isLoading' = FALSE
    /\ route' = Resolve(route, isAuthenticated')
    /\ location' = Address(route')
    /\ fresh' = FALSE
    /\ UNCHANGED viewVars
    /\ UNCHANGED <<token, storage, cleared, lastSet, navPending, signingIn,
                   awaiting>>

\* A checkAuth without its finally block: isLoading stays set.
CheckAuthFailedNoFinally(i) ==
    /\ running = Some(i)
    /\ reqs[i].st = "rejecting"
    /\ awaiting[i] = "checkAuth"
    /\ reqs' = [reqs EXCEPT ![i] = Rejected(reqs[i].op, reqs[i].error[1])]
    /\ running' = None
    /\ isAuthenticated' = Some(FALSE)
    /\ token' = None
    /\ storage' = RemoveItem
    /\ cleared' = TRUE
    /\ lastSet' = None
    /\ fresh' = FALSE
    /\ UNCHANGED viewVars
    /\ UNCHANGED <<navPending, signingIn, awaiting, isLoading, route, location>>

\* checkAuth when the await threw: the catch block and finally.
CheckAuthFailed(i) ==
    /\ running = Some(i)
    /\ reqs[i].st = "rejecting"
    /\ awaiting[i] = "checkAuth"
    /\ reqs' = [reqs EXCEPT ![i] = Rejected(reqs[i].op, reqs[i].error[1])]
    /\ running' = None
    /\ isAuthenticated' = Some(FALSE)
    /\ token' = None
    /\ storage' = RemoveItem
    /\ cleared' = TRUE
    /\ lastSet' = None
    /\ isLoading' = FALSE
    /\ route' = Resolve(route, isAuthenticated')
    /\ location' = Address(route')
    /\ fresh' = FALSE
    /\ UNCHANGED viewVars
    /\ UNCHANGED <<navPending, signingIn, awaiting>>

\* The sign-in button: Login.handleLogin and App.handleLogin up to the
\* await of apiService.login().
LoginClick ==
    /\ running = None
    /\ View(route, isAuthenticated, isLoading) = "Login"
    /\ ~signingIn
    /\ Len(reqs) < MaxReq
    /\ signingIn' = TRUE
    /\ reqs' = Append(reqs, NewRequest("login", token))
    /\ awaiting' = Append(awaiting, "handleLogin")
    /\ fresh' = FALSE
    /\ UNCHANGED viewVars
    /\ UNCHANGED <<token, storage, location, navPending, running, cleared,
                   lastSet, isAuthenticated, isLoading, route>>

\* login() stored the token and returned: App.handleLogin sets
\* isAuthenticated, Login.handleLogin's finally ends the sign-in.
LoginOk(i) ==
    /\ running = Some(i)
    /\ reqs[i].st = "resolving"
    /\ awaiting[i] = "handleLogin"
    /\ LET body == reqs[i].response[1] IN
       /\ token' = Some(body.access_token)
       /\ storage' = SetItem(body.access_token)
       /\ lastSet' = Some(body.access_token)
       /\ reqs' = [reqs EXCEPT ![i] = Resolved(reqs[i].op,
                                                ReturnValue(reqs[i].op, body))]
    /\ cleared' = FALSE
    /\ running' = None
    /\ isAuthenticated' = Some(TRUE)
    /\ signingIn' = FALSE
    /\ route' = Resolve(route, isAuthenticated')
    /\ location' = Address(route')
    /\ fresh' = FALSE
    /\ UNCHANGED viewVars
    /\ UNCHANGED <<navPending, isLoading, awaiting>>

\* A Login.handleLogin without its finally block: the flag stays set.
LoginFailedStaysLoading(i) ==
    /\ running = Some(i)
    /\ reqs[i].st = "rejecting"
    /\ awaiting[i] = "handleLogin"
    /\ reqs' = [reqs EXCEPT ![i] = Rejected(reqs[i].op, reqs[i].error[1])]
    /\ running' = None
    /\ isAuthenticated' = Some(FALSE)
    /\ route' = Resolve(route, isAuthenticated')
    /\ location' = Address(route')
    /\ fresh' = FALSE
    /\ UNCHANGED viewVars
    /\ UNCHANGED <<token, storage, navPending, cleared, lastSet, isLoading,
                   signingIn, awaiting>>

\* login() threw: the catch of App.handleLogin, then Login's finally.
LoginFailed(i) ==
    /\ running = Some(i)
    /\ reqs[i].st = "rejecting"
    /\ awaiting[i] = "handleLogin"
    /\ reqs' = [reqs EXCEPT ![i] = Rejected(reqs[i].op, reqs[i].error[1])]
    /\ running' = None
    /\ isAuthenticated' = Some(FALSE)
    /\ signingIn' = FALSE
    /\ route' = Resolve(route, isAuthenticated')
    /\ location' = Address(route')
    /\ fresh' = FALSE
    /\ UNCHANGED viewVars
    /\ UNCHANGED <<token, storage, navPending, cleared, lastSet, isLoading,
                   awaiting>>

\* A handleLogout without apiService.clearToken().
LogoutFlagOnly ==
    /\ running = None
    /\ View(route, isAuthenticated, isLoading) \in ProtectedPaths
    /\ isAuthenticated' = Some(FALSE)
    /\ route' = "/login"
    /\ location' = Address(route')
    /\ signingIn' = FALSE
    /\ fresh' = FALSE
    /\ UNCHANGED viewVars
    /\ UNCHANGED <<token, storage, cleared, lastSet, navPending, reqs, running,
                   isLoading, awaiting>>

\* The logout button of Layout: App.handleLogout, then navigate('/login').
Logout ==
    /\ running = None
    /\ View(route, isAuthenticated, isLoading) \in ProtectedPaths
    /\ token' = None
    /\ storage' = RemoveItem
    /\ cleared' = TRUE
    /\ lastSet' = None
    /\ isAuthenticated' = Some(FALSE)
    /\ route' = "/login"
    /\ location' = Address(route')
    /\ signingIn' = FALSE
    /\ fresh' = FALSE
    /\ UNCHANGED viewVars
    /\ UNCHANGED <<navPending, reqs, running, isLoading, awaiting>>

\* A page that is shown calls an operation.
PageCall(op) ==
    /\ running = None
    /\ View(route, isAuthenticated, isLoading) \in ProtectedPaths
    /\ Len(reqs) < MaxReq
    /\ reqs' = Append(reqs, NewRequest(op, token))
    /\ awaiting' = Append(awaiting, "page")
    /\ fresh' = FALSE
    /\ UNCHANGED viewVars
    /\ UNCHANGED <<token, storage, location, navPending, running, cleared,
                   lastSet, isAuthenticated, isLoading, signingIn, route>>

\* The operation a page called returns or throws; the page's query layer
\* takes the outcome.
PageSettled(i) ==
    /\ running = Some(i)
    /\ awaiting[i] = "page"
    /\ reqs' = [reqs EXCEPT ![i] =
                  IF reqs[i].st = "resolving"
                  THEN Resolved(reqs[i].op,
                                ReturnValue(reqs[i].op, reqs[i].response[1]))
                  ELSE Rejected(reqs[i].op, reqs[i].error[1])]
    /\ running' = None
    /\ fresh' = FALSE
    /\ UNCHANGED viewVars
    /\ UNCHANGED <<token, storage, location, navPending, cleared, lastSet,
                   appVars>>

\* The user follows a link of Layout or enters a path while the router is
\* mounted.
Goto(p) ==
    /\ running = None
    /\ ~isLoading
    /\ Resolve(p, isAuthenticated) # route
    /\ route' = Resolve(p, isAuthenticated)
    /\ location' = Address(route')
    /\ fresh' = FALSE
    /\ UNCHANGED viewVars
    /\ UNCHANGED <<token, storage, navPending, reqs, running, cleared, lastSet,
                   isAuthenticated, isLoading, signingIn, awaiting>>

\* The page is loaded again, at the path of the address bar: a new
\* ApiService, and App and Login start from their initial state.
AppReload ==
    /\ running = None
    /\ token' = LoadToken(storage)
    /\ reqs' = << >>
    /\ navPending' = FALSE
    /\ fresh' = TRUE
    /\ UNCHANGED viewVars
    /\ isAuthenticated' = None
    /\ isLoading' = TRUE
    /\ signingIn' = FALSE
    /\ route' = location
    /\ awaiting' = << >>
    /\ UNCHANGED <<storage, location, running, cleared, lastSet>>

NextApp ==
    \/ CheckAuth
    \/ \E i \in DOMAIN reqs : \E body \in Bodies(reqs[i].op) : Receive(i, body)
    \/ \E i \in DOMAIN reqs : \E err \in Errors : Fail(i, err)
    \/ \E i \in DOMAIN reqs : CheckAuthOk(i)
    \/ \E i \in DOMAIN reqs : CheckAuthFailed(i)
    \/ LoginClick
    \/ \E i \in DOMAIN reqs : LoginOk(i)
    \/ \E i \in DOMAIN reqs : LoginFailed(i)
    \/ Logout
    \/ \E op \in PageOps : PageCall(op)
    \/ \E i \in DOMAIN reqs : PageSettled(i)
    \/ \E p \in Routes : Goto(p)
    \/ AppReload

SpecApp == InitApp /\ [][NextApp]_vars

\* The healthCheck request of checkAuth settles: its response or an error
\* (a status, no connection, the timeout) arrives.
SettleCheck ==
    \E i \in DOMAIN reqs :
        /\ awaiting[i] = "checkAuth"
        /\ \/ \E body \in Bodies(reqs[i].op) : Receive(i, body)
           \/ \E err \in Errors : Fail(i, err)

\* The App where the effect of the mount runs, the healthCheck request
\* settles, and the continuation of checkAuth then runs.
SpecAppLive ==
    /\ SpecApp
    /\ WF_vars(CheckAuth)
    /\ SF_vars(SettleCheck)
    /\ WF_vars(\E i \in DOMAIN reqs : CheckAuthOk(i) \/ CheckAuthFailed(i))

\* ------------------------------------------------------- the Settings page
\* The Settings page while it is on screen in a signed-in session, the
\* query layer that fetches its list, and the backend's data sources.  A
\* call to the backend is "sent", then "served" once the backend has
\* handled it, and then its response is delivered to the page; an error
\* can be delivered at either stage.

\* The backend holds at most MaxSources data sources; it numbers them from 1.
MaxSources == 2
Ids == 1..MaxSources

\* Values a config can have, and what the user can type as config text.
EmptyObject == [kind |-> "object", items |-> << >>]
ArrayOne == [kind |-> "array", items |-> <<1>>]
Configs == {EmptyObject, ArrayOne}
ConfigTexts == {"{}", "[1]", "{bad"}
Names == {"", "src"}
Types == {"logs", "metrics"}

\* JSON.parse: the value, or a SyntaxError.
ParseJSON(text) ==
    IF text = "{}" THEN [ok |-> TRUE, value |-> EmptyObject]
    ELSE IF text \in {"[1]", "[\n  1\n]"} THEN [ok |-> TRUE, value |-> ArrayOne]
    ELSE [ok |-> FALSE, value |-> EmptyObject]

\* JSON.stringify(value, null, 2)
Stringify(value) == IF value = EmptyObject THEN "{}" ELSE "[\n  1\n]"

\* A call that was just issued, and the same call once the backend has
\* handled it.
Call(id, config) == Some([st |-> "sent", id |-> id, config |-> config])
Served(call, id) == Some([call[1] EXCEPT !.st = "served", !.id = id])

\* A mutation after its call returned ("success", with the id of the record
\* the backend answered) or threw ("error"), and mutation.isLoading.
Settled(st, id) == Some([st |-> st, id |-> id, config |-> EmptyObject])
Loading(mutation) == mutation # None /\ mutation[1].st \in {"sent", "served"}

\* A getDataSources call that was just issued.
FetchSent == Some([st |-> "sent", answer |-> {}])

\* useQuery's isLoading: no data yet and the first fetch is under way.
QueryLoading == dataSources = None /\ fetching # None

\* Settings renders its header, form and list: not the spinner, not the
\* error box; nothing reacts while alert() is on screen.
PageShown == mounted /\ ~alertOpen /\ ~QueryLoading /\ ~queryError

\* The list on screen.
Shown == IF PageShown /\ dataSources # None THEN dataSources[1] ELSE {}

\* The response interceptor on a 401 for a call of this page, and the hard
\* navigation it starts: the document with the page and its calls is gone
\* and the application starts again at /login.
TornDown ==
    /\ token' = None
    /\ storage' = RemoveItem
    /\ location' = "/login"
    /\ lastSet' = None
    /\ mounted' = FALSE
    /\ showAddForm' = FALSE
    /\ editingSource' = None
    /\ formData' = DefaultForm
    /\ createMutation' = None
    /\ updateMutation' = None
    /\ deleteMutation' = None
    /\ dataSources' = None
    /\ queryError' = FALSE
    /\ isInvalidated' = FALSE
    /\ fetching' = None
    /\ isAuthenticated' = None
    /\ isLoading' = TRUE
    /\ route' = "/login"
    /\ UNCHANGED <<navPending, alertOpen, sources, nextId, reqs, running,
                   cleared, signingIn, awaiting, otherViews>>

\* What a step of the page leaves alone outside the page.
Outside == <<reqs, running, cleared, appVars, otherViews>>
Session == <<token, storage, location, navPending, lastSet>>

formVars == <<showAddForm, editingSource, formData>>
mutationVars == <<createMutation, updateMutation, deleteMutation>>
queryVars == <<dataSources, queryError, isInvalidated, fetching>>
backendVars == <<sources, nextId>>

\* queryClient.invalidateQueries('data-sources'): the query is marked
\* invalidated and refetched; a fetch that is under way is the refetch.
Invalidate ==
    /\ isInvalidated' = TRUE
    /\ fetching' = IF fetching = None THEN FetchSent ELSE fetching
    /\ UNCHANGED <<dataSources, queryError>>

InitSettings ==
    /\ token = Some("t1")
    /\ storage = token
    /\ location = "/settings"
    /\ navPending = FALSE
    /\ reqs = << >>
    /\ running = None
    /\ cleared = FALSE
    /\ lastSet = token
    /\ fresh = FALSE
    /\ isAuthenticated = Some(TRUE)
    /\ isLoading = FALSE
    /\ signingIn = FALSE
    /\ route = "/settings"
    /\ awaiting = << >>
    /\ mounted = TRUE
    /\ showAddForm = FALSE
    /\ editingSource = None
    /\ formData = DefaultForm
    /\ alertOpen = FALSE
    /\ createMutation = None
    /\ updateMutation = None
    /\ deleteMutation = None
    /\ dataSources = None
    /\ queryError = FALSE
    /\ isInvalidated = FALSE
    /\ fetching = FetchSent
    /\ sources = {}
    /\ nextId = 1
    /\ AnomaliesClosed
    /\ ChatClosed
    /\ ChartClosed

\* The four onChange handlers of the form: one field takes a new value.
Change(field, value) ==
    /\ PageShown
    /\ showAddForm
    /\ formData[field] # value
    /\ formData' = [formData EXCEPT ![field] = value]
    /\ fresh' = FALSE
    /\ UNCHANGED <<mounted, showAddForm, editingSource, alertOpen, mutationVars,
                   queryVars, backendVars, Session, Outside>>

\* "Add Data Source"
AddClick ==
    /\ PageShown
    /\ editingSource' = None
    /\ formData' = DefaultForm
    /\ showAddForm' = TRUE
    /\ fresh' = FALSE
    /\ UNCHANGED <<mounted, alertOpen, mutationVars, queryVars, backendVars, Session, Outside>>

\* "Cancel"
CancelClick ==
    /\ PageShown
    /\ showAddForm
    /\ showAddForm' = FALSE
    /\ editingSource' = None
    /\ formData' = DefaultForm
    /\ fresh' = FALSE
    /\ UNCHANGED <<mounted, alertOpen, mutationVars, queryVars, backendVars, Session, Outside>>

\* handleEdit(source), for a source of the list on screen; its fields are
\* whatever the backend answered for it.
HandleEdit(id, name, type, config, enabled) ==
    /\ PageShown
    /\ id \in Shown
    /\ editingSource' = Some(id)
    /\ formData' = [name |-> name, type |-> type, config |-> Stringify(config),
                    enabled |-> enabled]
    /\ showAddForm' = TRUE
    /\ fresh' = FALSE
    /\ UNCHANGED <<mounted, alertOpen, mutationVars, queryVars, backendVars, Session, Outside>>

\* A handleSubmit that sends the config text without parsing it.
HandleSubmitUnparsed ==
    /\ PageShown
    /\ showAddForm
    /\ ~Loading(createMutation) /\ ~Loading(updateMutation)
    /\ formData.name # "" /\ formData.config # ""
    /\ IF editingSource # None
       THEN /\ updateMutation' = Call(editingSource[1], EmptyObject)
            /\ UNCHANGED createMutation
       ELSE /\ createMutation' = Call(0, EmptyObject)
            /\ UNCHANGED updateMutation
    /\ fresh' = FALSE
    /\ UNCHANGED <<mounted, formVars, alertOpen, deleteMutation, queryVars,
                   backendVars, Session, Outside>>

\* handleSubmit: the submit button is enabled while no create or update is
\* under way, and the browser submits once the required fields are filled.
HandleSubmit ==
    /\ PageShown
    /\ showAddForm
    /\ ~Loading(createMutation) /\ ~Loading(updateMutation)
    /\ formData.name # "" /\ formData.config # ""
    /\ LET parsed == ParseJSON(formData.config) IN
       IF parsed.ok
       THEN /\ IF editingSource # None
               THEN /\ updateMutation' = Call(editingSource[1], parsed.value)
                    /\ UNCHANGED createMutation
               ELSE /\ createMutation' = Call(0, parsed.value)
                    /\ UNCHANGED updateMutation
            /\ UNCHANGED alertOpen
       ELSE /\ alertOpen' = TRUE
            /\ UNCHANGED <<createMutation, updateMutation>>
    /\ fresh' = FALSE
    /\ UNCHANGED <<mounted, formVars, deleteMutation, queryVars, backendVars, Session, Outside>>

\* The user closes the alert.
DismissAlert ==
    /\ mounted
    /\ alertOpen
    /\ alertOpen' = FALSE
    /\ fresh' = FALSE
    /\ UNCHANGED <<mounted, formVars, mutationVars, queryVars, backendVars, Session, Outside>>

\* handleDelete(id), confirmed; the button is enabled while no delete is
\* under way.
HandleDelete(id) ==
    /\ PageShown
    /\ id \in Shown
    /\ ~Loading(deleteMutation)
    /\ deleteMutation' = Call(id, EmptyObject)
    /\ fresh' = FALSE
    /\ UNCHANGED <<mounted, formVars, alertOpen, createMutation, updateMutation,
                   queryVars, backendVars, Session, Outside>>

\* The backend handles POST /data-sources: the record gets the next id.
ServeCreate ==
    /\ createMutation # None
    /\ createMutation[1].st = "sent"
    /\ nextId \in Ids
    /\ sources' = sources \cup {nextId}
    /\ nextId' = nextId + 1
    /\ createMutation' = Served(createMutation, nextId)
    /\ fresh' = FALSE
    /\ UNCHANGED <<mounted, formVars, alertOpen, updateMutation, deleteMutation,
                   queryVars, Session, Outside>>

\* The backend handles PUT /data-sources/{id} for a record it holds.
ServeUpdate ==
    /\ updateMutation # None
    /\ updateMutation[1].st = "sent"
    /\ updateMutation[1].id \in sources
    /\ updateMutation' = Served(updateMutation, updateMutation[1].id)
    /\ fresh' = FALSE
    /\ UNCHANGED <<mounted, formVars, alertOpen, createMutation, deleteMutation,
                   queryVars, backendVars, Session, Outside>>

\* The backend handles DELETE /data-sources/{id} for a record it holds.
ServeDelete ==
    /\ deleteMutation # None
    /\ deleteMutation[1].st = "sent"
    /\ deleteMutation[1].id \in sources
    /\ sources' = sources \ {deleteMutation[1].id}
    /\ deleteMutation' = Served(deleteMutation, deleteMutation[1].id)
    /\ fresh' = FALSE
    /\ UNCHANGED <<mounted, formVars, alertOpen, createMutation, updateMutation,
                   queryVars, nextId, Session, Outside>>

\* The backend handles GET /data-sources: it answers the records it holds.
ServeFetch ==
    /\ fetching # None
    /\ fetching[1].st = "sent"
    /\ fetching' = Some([st |-> "served", answer |-> sources])
    /\ fresh' = FALSE
    /\ UNCHANGED <<mounted, formVars, alertOpen, mutationVars, dataSources,
                   queryError, isInvalidated, backendVars, Session,
                   Outside>>

\* A createMutation whose onSuccess does not invalidate the query.
CreateOkNoInvalidate ==
    /\ mounted /\ ~alertOpen
    /\ createMutation # None
    /\ createMutation[1].st = "served"
    /\ createMutation' = Settled("success", createMutation[1].id)
    /\ showAddForm' = FALSE
    /\ formData' = DefaultForm
    /\ fresh' = FALSE
    /\ UNCHANGED <<mounted, editingSource, alertOpen, updateMutation,
                   deleteMutation, queryVars, backendVars, Session, Outside>>

\* createDataSource returned: onSuccess of createMutation.
CreateOk ==
    /\ mounted /\ ~alertOpen
    /\ createMutation # None
    /\ createMutation[1].st = "served"
    /\ createMutation' = Settled("success", createMutation[1].id)
    /\ Invalidate
    /\ showAddForm' = FALSE
    /\ formData' = DefaultForm
    /\ fresh' = FALSE
    /\ UNCHANGED <<mounted, editingSource, alertOpen, updateMutation,
                   deleteMutation, backendVars, Session, Outside>>

\* createDataSource threw: createMutation has no onError.
CreateFail(err) ==
    /\ mounted /\ ~alertOpen
    /\ Loading(createMutation)
    /\ IF IsUnauthorized(err)
       THEN TornDown
       ELSE /\ createMutation' = Settled("error", 0)
            /\ UNCHANGED <<mounted, formVars, alertOpen, updateMutation,
                           deleteMutation, queryVars, backendVars, Session,
                           Outside>>
    /\ fresh' = FALSE

\* updateDataSource returned: onSuccess of updateMutation.
UpdateOk ==
    /\ mounted /\ ~alertOpen
    /\ updateMutation # None
    /\ updateMutation[1].st = "served"
    /\ updateMutation' = Settled("success", updateMutation[1].id)
    /\ Invalidate
    /\ editingSource' = None
    /\ formData' = DefaultForm
    /\ fresh' = FALSE
    /\ UNCHANGED <<mounted, showAddForm, alertOpen, createMutation,
                   deleteMutation, backendVars, Session, Outside>>

\* updateDataSource threw.
UpdateFail(err) ==
    /\ mounted /\ ~alertOpen
    /\ Loading(updateMutation)
    /\ IF IsUnauthorized(err)
       THEN TornDown
       ELSE /\ updateMutation' = Settled("error", 0)
            /\ UNCHANGED <<mounted, formVars, alertOpen, createMutation,
                           deleteMutation, queryVars, backendVars, Session,
                           Outside>>
    /\ fresh' = FALSE

\* deleteDataSource returned: onSuccess of deleteMutation.
DeleteOk ==
    /\ mounted /\ ~alertOpen
    /\ deleteMutation # None
    /\ deleteMutation[1].st = "served"
    /\ deleteMutation' = Settled("success", 0)
    /\ Invalidate
    /\ fresh' = FALSE
    /\ UNCHANGED <<mounted, formVars, alertOpen, createMutation, updateMutation,
                   backendVars, Session, Outside>>

\* deleteDataSource threw.
DeleteFail(err) ==
    /\ mounted /\ ~alertOpen
    /\ Loading(deleteMutation)
    /\ IF IsUnauthorized(err)
       THEN TornDown
       ELSE /\ deleteMutation' = Settled("error", 0)
            /\ UNCHANGED <<mounted, formVars, alertOpen, createMutation,
                           updateMutation, queryVars, backendVars, Session,
                           Outside>>
    /\ fresh' = FALSE

\* refetchInterval: 30000 - the timer of the query fires.
RefetchInterval ==
    /\ mounted /\ ~alertOpen
    /\ fetching = None
    /\ fetching' = FetchSent
    /\ fresh' = FALSE
    /\ UNCHANGED <<mounted, formVars, alertOpen, mutationVars, dataSources,
                   queryError, isInvalidated, backendVars, Session,
                   Outside>>

\* getDataSources returned: the query takes the list.
FetchOk ==
    /\ mounted /\ ~alertOpen
    /\ fetching # None
    /\ fetching[1].st = "served"
    /\ dataSources' = Some(fetching[1].answer)
    /\ queryError' = FALSE
    /\ isInvalidated' = FALSE
    /\ fetching' = None
    /\ fresh' = FALSE
    /\ UNCHANGED <<mounted, formVars, alertOpen, mutationVars, backendVars, Session, Outside>>

\* getDataSources threw and the query gave up: it keeps its data and holds
\* the error.
FetchFail(err) ==
    /\ mounted /\ ~alertOpen
    /\ fetching # None
    /\ IF IsUnauthorized(err)
       THEN TornDown
       ELSE /\ fetching' = None
            /\ queryError' = TRUE
            /\ UNCHANGED <<mounted, formVars, alertOpen, mutationVars,
                           dataSources, isInvalidated, backendVars, Session,
                           Outside>>
    /\ fresh' = FALSE

\* The form of the page and what it submits: adding and editing sources.
NextSettings ==
    \/ \E v \in Names : Change("name", v)
    \/ \E v \in Types : Change("type", v)
    \/ \E v \in ConfigTexts : Change("config", v)
    \/ \E v \in BOOLEAN : Change("enabled", v)
    \/ AddClick
    \/ CancelClick
    \/ \E id \in Ids, n \in Names \ {""}, t \in Types, c \in Configs,
          e \in BOOLEAN :
          HandleEdit(id, n, t, c, e)
    \/ HandleSubmit
    \/ DismissAlert
    \/ ServeCreate
    \/ ServeUpdate
    \/ ServeFetch
    \/ CreateOk
    \/ \E err \in Errors : CreateFail(err)
    \/ UpdateOk
    \/ \E err \in Errors : UpdateFail(err)
    \/ RefetchInterval
    \/ FetchOk
    \/ \E err \in Errors : FetchFail(err)

SpecSettings == InitSettings /\ [][NextSettings]_vars

\* The list of the page and what changes it: sources are added and
\* deleted, and the list is fetched.
NextList ==
    \/ \E v \in Names : Change("name", v)
    \/ AddClick
    \/ CancelClick
    \/ HandleSubmit
    \/ \E id \in Ids : HandleDelete(id)
    \/ ServeCreate
    \/ ServeDelete
    \/ ServeFetch
    \/ CreateOk
    \/ \E err \in Errors : CreateFail(err)
    \/ DeleteOk
    \/ \E err \in Errors : DeleteFail(err)
    \/ RefetchInterval
    \/ FetchOk
    \/ \E err \in Errors : FetchFail(err)

\* The list, where the timer of the query keeps firing, and the backend
\* answers and its answer arrives whenever the list is fetched again and
\* again.
SpecList ==
    /\ InitSettings
    /\ [][NextList]_vars
    /\ SF_vars(RefetchInterval)
    /\ SF_vars(ServeFetch)
    /\ SF_vars(FetchOk)

\* ------------------------------------------------------ the Anomalies page
\* The Anomalies page while it is on screen in a signed-in session, the
\* query that fetches its list, and the anomalies of the backend.

\* What a step of the Anomalies page leaves alone outside the page.
besideAnomalies == <<reqs, running, cleared, appVars, settingsVars,
                     chatVars, chartVars>>

\* A signed-in session with the router at path p.
SignedIn(p) ==
    /\ token = Some("t1")
    /\ storage = token
    /\ location = p
    /\ navPending = FALSE
    /\ reqs = << >>
    /\ running = None
    /\ cleared = FALSE
    /\ lastSet = token
    /\ fresh = FALSE
    /\ isAuthenticated = Some(TRUE)
    /\ isLoading = FALSE
    /\ signingIn = FALSE
    /\ route = p
    /\ awaiting = << >>

\* A getAnomalies call that was just issued.
AnomaliesSent == Some([st |-> "sent", answer |-> << >>])

\* The page renders its list: not the spinner, not the error box.
AnomaliesShown ==
    /\ anomaliesOpen
    /\ ~(anomalyList = None /\ anomalyFetch # None)
    /\ ~anomalyError

\* The anomalies of the list on screen, and those it shows a Resolve
\* button for: {!anomaly.resolved && <button ...>}.
Listed == IF AnomaliesShown /\ anomalyList # None
          THEN DOMAIN anomalyList[1] ELSE {}
Resolvable == {id \in Listed : ~anomalyList[1][id]}

\* queryClient.invalidateQueries('anomalies')
InvalidateAnomalies ==
    anomalyFetch' = IF anomalyFetch = None THEN AnomaliesSent ELSE anomalyFetch

\* The response interceptor on a 401 for a call of this page, and the hard
\* navigation it starts.
AnomaliesTornDown ==
    /\ token' = None
    /\ storage' = RemoveItem
    /\ location' = "/login"
    /\ lastSet' = None
    /\ isAuthenticated' = None
    /\ isLoading' = TRUE
    /\ route' = "/login"
    /\ anomaliesOpen' = FALSE
    /\ anomalyList' = None
    /\ anomalyError' = FALSE
    /\ anomalyFetch' = None
    /\ resolveMutation' = None
    /\ UNCHANGED <<navPending, reqs, running, cleared, signingIn, awaiting,
                   anomalies, settingsVars, chatVars, chartVars>>

InitAnomalies ==
    /\ SignedIn("/anomalies")
    /\ SettingsClosed
    /\ ChatClosed
    /\ ChartClosed
    /\ anomaliesOpen = TRUE
    /\ anomalies \in [AnomalyIds -> BOOLEAN]
    /\ anomalyList = None
    /\ anomalyError = FALSE
    /\ anomalyFetch = AnomaliesSent
    /\ resolveMutation = None

\* A Resolve button that is rendered for resolved anomalies too.
HandleResolveAny(id) ==
    /\ AnomaliesShown
    /\ id \in Listed
    /\ ~Loading(resolveMutation)
    /\ resolveMutation' = Call(id, EmptyObject)
    /\ fresh' = FALSE
    /\ UNCHANGED <<anomaliesOpen, anomalies, anomalyList, anomalyError,
                   anomalyFetch, Session, besideAnomalies>>

\* handleResolve(anomaly.id) from the button of an anomaly of the list; the
\* button is there for an unresolved anomaly and enabled while no resolve
\* is under way.
HandleResolve(id) ==
    /\ AnomaliesShown
    /\ id \in Resolvable
    /\ ~Loading(resolveMutation)
    /\ resolveMutation' = Call(id, EmptyObject)
    /\ fresh' = FALSE
    /\ UNCHANGED <<anomaliesOpen, anomalies, anomalyList, anomalyError,
                   anomalyFetch, Session, besideAnomalies>>

\* handleRefresh
HandleRefresh ==
    /\ AnomaliesShown
    /\ anomalyFetch = None
    /\ InvalidateAnomalies
    /\ fresh' = FALSE
    /\ UNCHANGED <<anomaliesOpen, anomalies, anomalyList, anomalyError,
                   resolveMutation, Session, besideAnomalies>>

\* A filter input changes: the query has a new key, so no data yet, and
\* its list is fetched.
SetFilters ==
    /\ AnomaliesShown
    /\ anomalyList # None
    /\ anomalyList' = None
    /\ anomalyFetch' = AnomaliesSent
    /\ fresh' = FALSE
    /\ UNCHANGED <<anomaliesOpen, anomalies, anomalyError, resolveMutation,
                   Session, besideAnomalies>>

\* The backend handles POST /anomalies/{id}/resolve: the anomaly is
\* resolved.
ServeResolve ==
    /\ resolveMutation # None
    /\ resolveMutation[1].st = "sent"
    /\ anomalies' = [anomalies EXCEPT ![resolveMutation[1].id] = TRUE]
    /\ resolveMutation' = Served(resolveMutation, resolveMutation[1].id)
    /\ fresh' = FALSE
    /\ UNCHANGED <<anomaliesOpen, anomalyList, anomalyError, anomalyFetch,
                   Session, besideAnomalies>>

\* The backend handles GET /anomalies: it answers the anomalies that match
\* the filters, each with its resolved state.
ServeAnomalies(ids) ==
    /\ anomalyFetch # None
    /\ anomalyFetch[1].st = "sent"
    /\ anomalyFetch' = Some([st |-> "served",
                             answer |-> [id \in ids |-> anomalies[id]]])
    /\ fresh' = FALSE
    /\ UNCHANGED <<anomaliesOpen, anomalies, anomalyList, anomalyError,
                   resolveMutation, Session, besideAnomalies>>

\* resolveAnomaly returned: onSuccess of resolveMutation.
ResolveOk ==
    /\ anomaliesOpen
    /\ resolveMutation # None
    /\ resolveMutation[1].st = "served"
    /\ resolveMutation' = Settled("success", resolveMutation[1].id)
    /\ InvalidateAnomalies
    /\ fresh' = FALSE
    /\ UNCHANGED <<anomaliesOpen, anomalies, anomalyList, anomalyError,
                   Session, besideAnomalies>>

\* resolveAnomaly threw.
ResolveFail(err) ==
    /\ anomaliesOpen
    /\ Loading(resolveMutation)
    /\ IF IsUnauthorized(err)
       THEN AnomaliesTornDown
       ELSE /\ resolveMutation' = Settled("error", 0)
            /\ UNCHANGED <<anomaliesOpen, anomalies, anomalyList, anomalyError,
                           anomalyFetch, Session, besideAnomalies>>
    /\ fresh' = FALSE

\* refetchInterval: 30000 - the timer of the query fires.
AnomaliesInterval ==
    /\ anomaliesOpen
    /\ anomalyFetch = None
    /\ anomalyFetch' = AnomaliesSent
    /\ fresh' = FALSE
    /\ UNCHANGED <<anomaliesOpen, anomalies, anomalyList, anomalyError,
                   resolveMutation, Session, besideAnomalies>>

\* getAnomalies returned: the query takes the list.
AnomaliesOk ==
    /\ anomaliesOpen
    /\ anomalyFetch # None
    /\ anomalyFetch[1].st = "served"
    /\ anomalyList' = Some(anomalyFetch[1].answer)
    /\ anomalyError' = FALSE
    /\ anomalyFetch' = None
    /\ fresh' = FALSE
    /\ UNCHANGED <<anomaliesOpen, anomalies, resolveMutation, Session,
                   besideAnomalies>>

\* getAnomalies threw and the query gave up.
AnomaliesFail(err) ==
    /\ anomaliesOpen
    /\ anomalyFetch # None
    /\ IF IsUnauthorized(err)
       THEN AnomaliesTornDown
       ELSE /\ anomalyFetch' = None
            /\ anomalyError' = TRUE
            /\ UNCHANGED <<anomaliesOpen, anomalies, anomalyList,
                           resolveMutation, Session, besideAnomalies>>
    /\ fresh' = FALSE

NextAnomalies ==
    \/ \E id \in AnomalyIds : HandleResolve(id)
    \/ HandleRefresh
    \/ SetFilters
    \/ ServeResolve
    \/ \E ids \in SUBSET AnomalyIds : ServeAnomalies(ids)
    \/ ResolveOk
    \/ \E err \in Errors : ResolveFail(err)
    \/ AnomaliesInterval
    \/ AnomaliesOk
    \/ \E err \in Errors : AnomaliesFail(err)

SpecAnomalies == InitAnomalies /\ [][NextAnomalies]_vars

\* -------------------------------------------------- the AnalyticsChat page
\* The ChatInterface of the AnalyticsChat page while it is on screen in a
\* signed-in session, and the insights sidebar beside it.

MaxSends == 2

\* What can be typed: nothing, a blank, a letter, a letter between blanks.
Inputs == {<< >>, <<" ">>, <<"a">>, <<" ", "a", " ">>}

\* String.prototype.trim
RECURSIVE TrimStart(_)
TrimStart(text) ==
    IF text # << >> /\ Head(text) = " " THEN TrimStart(Tail(text)) ELSE text
RECURSIVE TrimEnd(_)
TrimEnd(text) ==
    IF text # << >> /\ text[Len(text)] = " "
    THEN TrimEnd(SubSeq(text, 1, Len(text) - 1))
    ELSE text
Trim(text) == TrimEnd(TrimStart(text))

\* Array.prototype.slice(from, to) for 0 <= from <= to
Slice(array, from, to) ==
    SubSeq(array, from + 1, IF to < Len(array) THEN to ELSE Len(array))

\* The sequence without its i-th element.
Without(array, i) ==
    SubSeq(array, 1, i - 1) \o SubSeq(array, i + 1, Len(array))

\* The insights a reply can carry: objects with a content, with a summary
\* only, with neither, and null.
WithContent == [kind |-> "object", content |-> "c", summary |-> "s"]
WithSummary == [kind |-> "object", content |-> "", summary |-> "s"]
Bare == [kind |-> "object", content |-> "", summary |-> ""]
NullInsight == [kind |-> "null"]

\* The replies of the backend to a conversational query.
ChatBatches == {<<WithContent>>, <<NullInsight>>}
Responses ==
    {[result |-> None]} \cup
    {[result |-> Some([response |-> text, insights |-> batch])] :
        text \in {"", "reply"},
        batch \in {None} \cup {Some(b) : b \in ChatBatches}}

\* insight.content || insight.summary || 'New insight generated'
Content(insight) ==
    IF insight.content # "" THEN insight.content
    ELSE IF insight.summary # "" THEN insight.summary
    ELSE "New insight generated"

\* newInsights.map(...) reads a property of each insight, which throws a
\* TypeError for null.
Throws(batch) == \E k \in DOMAIN batch : batch[k].kind = "null"

\* formattedInsights; an insight is identified by its rank among those
\* generated.
Formatted(batch) ==
    [k \in DOMAIN batch |->
        [id |-> generated + k, content |-> Content(batch[k])]]

\* handleInsightGenerated(batch), when it does not throw.
HandleInsightGenerated(batch) ==
    /\ insights' = Slice(insights \o Formatted(batch), 0, 10)
    /\ generated' = generated + Len(batch)

\* response.result?.response || 'I apologize, ...'
BotContent(response) ==
    IF response.result # None /\ response.result[1].response # ""
    THEN response.result[1].response
    ELSE Fallback

\* The insights the handler passes to onInsightGenerated, if any.
ReplyInsights(response) ==
    IF response.result # None /\ response.result[1].insights # None
    THEN response.result[1].insights[1]
    ELSE << >>

Bot(content) == [sender |-> "bot", content |-> content]
User(content) == [sender |-> "user", content |-> content]
Sends == Cardinality({k \in DOMAIN messages : messages[k].sender = "user"})

\* What a step of the chat leaves alone outside the page.
besideChat == <<reqs, running, cleared, appVars, settingsVars, anomalyVars,
                chartVars>>

\* The response interceptor on a 401 for a call of the chat, and the hard
\* navigation it starts.
ChatTornDown ==
    /\ token' = None
    /\ storage' = RemoveItem
    /\ location' = "/login"
    /\ lastSet' = None
    /\ isAuthenticated' = None
    /\ isLoading' = TRUE
    /\ route' = "/login"
    /\ chatOpen' = FALSE
    /\ messages' = <<Hello>>
    /\ input' = << >>
    /\ chatIsLoading' = FALSE
    /\ chatPending' = << >>
    /\ insights' = << >>
    /\ generated' = 0
    /\ UNCHANGED <<navPending, reqs, running, cleared, signingIn, awaiting,
                   settingsVars, anomalyVars, chartVars>>

InitChat ==
    /\ SignedIn("/chat")
    /\ SettingsClosed
    /\ AnomaliesClosed
    /\ ChartClosed
    /\ chatOpen = TRUE
    /\ messages = <<Hello>>
    /\ input = << >>
    /\ chatIsLoading = FALSE
    /\ chatPending = << >>
    /\ insights = << >>
    /\ generated = 0

\* onChange of the input, which is disabled while isLoading.
SetInput(text) ==
    /\ chatOpen
    /\ ~chatIsLoading
    /\ input' = text
    /\ fresh' = FALSE
    /\ UNCHANGED <<chatOpen, messages, chatIsLoading, chatPending, insights,
                   generated, Session, besideChat>>

\* A handleSendMessage that sends whatever the input holds, whenever.
HandleSendMessageUnguarded ==
    /\ chatOpen
    /\ Sends < MaxSends
    /\ messages' = Append(messages, User(input))
    /\ input' = << >>
    /\ chatIsLoading' = TRUE
    /\ chatPending' = Append(chatPending,
                             [query |-> input, st |-> "sent",
                              response |-> None])
    /\ fresh' = FALSE
    /\ UNCHANGED <<chatOpen, insights, generated, Session, besideChat>>

\* handleSendMessage up to its await: from the send button or the Enter
\* key, in any state of the chat.
HandleSendMessage ==
    /\ chatOpen
    /\ (Trim(input) # << >> /\ ~chatIsLoading) => Sends < MaxSends
    /\ IF Trim(input) = << >> \/ chatIsLoading
       THEN UNCHANGED <<messages, input, chatIsLoading, chatPending>>
       ELSE /\ messages' = Append(messages, User(input))
            /\ input' = << >>
            /\ chatIsLoading' = TRUE
            /\ chatPending' = Append(chatPending,
                                     [query |-> input, st |-> "sent",
                                      response |-> None])
    /\ fresh' = FALSE
    /\ UNCHANGED <<chatOpen, insights, generated, Session, besideChat>>

\* The backend answers POST /ai-agents/conversational-query.
ServeQuery(i, response) ==
    /\ i \in DOMAIN chatPending
    /\ chatPending[i].st = "sent"
    /\ chatPending' = [chatPending EXCEPT ![i].st = "served",
                                          ![i].response = Some(response)]
    /\ fresh' = FALSE
    /\ UNCHANGED <<chatOpen, messages, input, chatIsLoading, insights,
                   generated, Session, besideChat>>

\* handleSendMessage after its await returned: the rest of the try block,
\* the catch block when onInsightGenerated throws, and the finally block.
ChatOk(i) ==
    /\ chatOpen
    /\ i \in DOMAIN chatPending
    /\ chatPending[i].st = "served"
    /\ LET response == chatPending[i].response[1]
           botMessage == Bot(BotContent(response))
           batch == ReplyInsights(response)
       IN  IF Throws(batch)
           THEN /\ messages' = messages \o <<botMessage, Bot(Apology)>>
                /\ UNCHANGED <<insights, generated>>
           ELSE /\ messages' = Append(messages, botMessage)
                /\ HandleInsightGenerated(batch)
    /\ chatIsLoading' = FALSE
    /\ chatPending' = Without(chatPending, i)
    /\ fresh' = FALSE
    /\ UNCHANGED <<chatOpen, input, Session, besideChat>>

\* handleSendMessage after its await threw: the catch and finally blocks.
ChatFail(i, err) ==
    /\ chatOpen
    /\ i \in DOMAIN chatPending
    /\ IF IsUnauthorized(err)
       THEN ChatTornDown
       ELSE /\ messages' = Append(messages, Bot(Apology))
            /\ chatIsLoading' = FALSE
            /\ chatPending' = Without(chatPending, i)
            /\ UNCHANGED <<chatOpen, input, insights, generated, Session,
                           besideChat>>
    /\ fresh' = FALSE

NextChat ==
    \/ \E text \in Inputs : SetInput(text)
    \/ HandleSendMessage
    \/ \E i \in DOMAIN chatPending : \E response \in Responses :
          ServeQuery(i, response)
    \/ \E i \in DOMAIN chatPending : ChatOk(i)
    \/ \E i \in DOMAIN chatPending : \E err \in Errors : ChatFail(i, err)

SpecChat == InitChat /\ [][NextChat]_vars

\* A call of the ApiService settles: the backend answers and the answer is
\* handled, or the call fails, after timeout: 10000 at the latest.
ChatSettles ==
    \E i \in DOMAIN chatPending :
        \/ \E response \in Responses : ServeQuery(i, response)
        \/ ChatOk(i)
        \/ \E err \in Errors : ChatFail(i, err)

SpecChatLive == SpecChat /\ WF_vars(ChatSettles)

\* The insights sidebar of the AnalyticsChat page, with the batches of
\* insights that the chat hands to it.

MaxGenerated == 12
MaxBatch == 2
Batches == UNION {[1..n -> {WithSummary, Bare}] : n \in 1..MaxBatch}

\* onInsightGenerated(batch), called by the chat.
InsightGenerated(batch) ==
    /\ chatOpen
    /\ generated + Len(batch) <= MaxGenerated
    /\ HandleInsightGenerated(batch)
    /\ fresh' = FALSE
    /\ UNCHANGED <<chatOpen, messages, input, chatIsLoading, chatPending,
                   Session, besideChat>>

\* clearInsights, from the Clear button of a sidebar that shows insights.
ClearInsights ==
    /\ chatOpen
    /\ insights # << >>
    /\ insights' = << >>
    /\ generated' = 0
    /\ fresh' = FALSE
    /\ UNCHANGED <<chatOpen, messages, input, chatIsLoading, chatPending,
                   Session, besideChat>>

NextInsights ==
    \/ \E batch \in Batches : InsightGenerated(batch)
    \/ ClearInsights

SpecInsights == InitChat /\ [][NextInsights]_vars

\* ------------------------------------------------------- the AnomalyChart
\* The score distribution chart of the AnomalyChart, rendered for the
\* anomalies of its data prop. A score is held in tenths: 0 is 0.0 and 10
\* is 1.0, the range of the score of an anomaly.

MaxData == 3
Scores == 0..10

\* scoreRanges before the anomalies are counted, min and max in tenths.
EmptyRanges ==
    <<[range |-> "0.0-0.2", min |-> 0, max |-> 2, count |-> 0],
      [range |-> "0.2-0.4", min |-> 2, max |-> 4, count |-> 0],
      [range |-> "0.4-0.6", min |-> 4, max |-> 6, count |-> 0],
      [range |-> "0.6-0.8", min |-> 6, max |-> 8, count |-> 0],
      [range |-> "0.8-1.0", min |-> 8, max |-> 10, count |-> 0]>>

\* anomaly.score >= r.min && anomaly.score < r.max
InRange(r, score) == score >= r.min /\ score < r.max

\* scoreRanges.find(...): the index of the first range the score is in, or
\* 0 for undefined.
Find(ranges, score) ==
    IF \E k \in DOMAIN ranges : InRange(ranges[k], score)
    THEN CHOOSE k \in DOMAIN ranges :
            /\ InRange(ranges[k], score)
            /\ \A j \in 1..(k - 1) : ~InRange(ranges[j], score)
    ELSE 0

\* data.forEach(...): if (range) range.count++
RECURSIVE Counted(_, _)
Counted(ranges, scores) ==
    IF scores = << >> THEN ranges
    ELSE LET r == Find(ranges, Head(scores))
         IN  Counted(IF r = 0 THEN ranges
                     ELSE [ranges EXCEPT ![r].count = @ + 1],
                     Tail(scores))

RenderDistributionChart(scores) == Counted(EmptyRanges, scores)

InitChart ==
    /\ SignedIn("/anomalies")
    /\ SettingsClosed
    /\ AnomaliesClosed
    /\ ChatClosed
    /\ data = << >>
    /\ scoreRanges = RenderDistributionChart(data)

\* The chart is rendered again with one more anomaly in its data.
AnomalyAdded(score) ==
    /\ Len(data) < MaxData
    /\ data' = Append(data, score)
    /\ scoreRanges' = RenderDistributionChart(data')
    /\ fresh' = FALSE
    /\ UNCHANGED <<Session, reqs, running, cleared, appVars, settingsVars,
                   anomalyVars, chatVars>>

NextChart == \E score \in Scores : AnomalyAdded(score)

SpecChart == InitChart /\ [][NextChart]_vars

\* ------------------------------------------------------------ properties
Bearer(t) == Some([scheme |-> "Bearer", credentials |-> t])
Unauthorized == StatusError(401)

\* The requests sent by a step, and the requests a step moves from one
\* stage to another.
Sent == DOMAIN reqs' \ DOMAIN reqs
Moves(i, from, to) ==
    /\ i \in DOMAIN reqs
    /\ i \in DOMAIN reqs'
    /\ reqs[i].st = from
    /\ reqs'[i].st = to

\* Request i is pending with the credential of token t / with none.
Carries(i, t) == i \in Pending /\ reqs[i].auth = Bearer(t)
CarriesNone(i) == i \in Pending /\ reqs[i].auth = None

\* The call i has settled: rejected with err / resolved with value.
RejectedWith(i, err) == reqs[i].st = "rejected" /\ reqs[i].error = Some(err)
ResolvedWith(i, value) == reqs[i].st = "resolved" /\ reqs[i].result = Some(value)

\* The response interceptor was handed err for request i and has rejected.
Rejecting(i, err) == reqs[i].st = "rejecting" /\ reqs[i].cause = Some(err)

\* C1: a request sent while a token is set carries "Bearer <that token>",
\* and a request sent while no token is set (null, or the empty string,
\* which the interceptor's test treats alike) carries no Authorization
\* header, whatever the operation.
C1_RequestCarriesToken ==
    [][\A i \in Sent :
          /\ (token # None /\ token[1] # "") => reqs'[i].auth = Bearer(token[1])
          /\ (token = None \/ token = Some("")) => reqs'[i].auth = None]_vars

C1_Witness ==
    \E i, j \in DOMAIN reqs :
        /\ j < i
        /\ CarriesNone(j)
        /\ Carries(i, "t2")
        /\ reqs[i].op # reqs[j].op

\* C2: a 401 response to any operation clears the in-memory token, removes
\* the persisted entry and starts the navigation to /login.
C2_UnauthorizedTearsDown ==
    [][\A i \in DOMAIN reqs :
          (Moves(i, "sent", "rejecting") /\ reqs'[i].cause = Some(Unauthorized))
              => /\ token' = None
                 /\ storage' = None
                 /\ location' = "/login"
                 /\ navPending']_vars

C2_Witness ==
    \E i, j \in DOMAIN reqs :
        /\ reqs[i].op = "login"
        /\ RejectedWith(i, Unauthorized)
        /\ reqs[j].op = "healthCheck"
        /\ Rejecting(j, Unauthorized)
        /\ Carries(j, "t1")
        /\ token = None

\* C3: once clearToken has run and until setToken runs again, storage holds
\* no token and every request sent carries no credential, whatever other
\* calls and responses are interleaved.
C3_ClearedStaysCleared ==
    /\ [](cleared => storage = None)
    /\ [][cleared => \A i \in Sent : reqs'[i].auth = None]_vars

C3_Witness ==
    \E i, j \in DOMAIN reqs :
        /\ cleared
        /\ j < i
        /\ Carries(j, "t1")
        /\ reqs[j].st = "resolving"
        /\ CarriesNone(i)
        /\ reqs[i].st = "sent"

\* C4: the in-memory token and the persisted copy agree in every state:
\* both absent or both the same single string.
C4_TokenMirrorsStorage ==
    /\ token = storage
    /\ token \in OptTokens

C4_Witness ==
    /\ token = Some("t2")
    /\ storage = Some("t2")
    /\ \E i, j \in DOMAIN reqs :
          /\ RejectedWith(i, Unauthorized)
          /\ reqs[j].op = "login"
          /\ ResolvedWith(j, [kind |-> "data", data |-> AuthResponse("t2")])

\* C5: a failure that is not a 401 response is rejected to the caller with
\* the same error, and neither the interceptor nor the operation touches
\* the token, the persisted token or the location.
C5_OtherFailuresPropagate ==
    [][\A i \in DOMAIN reqs : \A err \in Errors \ {Unauthorized} :
          /\ (Moves(i, "sent", "rejecting") /\ reqs'[i].cause = Some(err))
                => /\ reqs'[i].error = Some(err)
                   /\ UNCHANGED <<token, storage, location, navPending>>
          /\ Rejecting(i, err)
                => /\ Moves(i, "rejecting", "rejected")
                   /\ reqs'[i].error = Some(err)
                   /\ UNCHANGED <<token, storage, location, navPending>>]_vars

C5_Witness ==
    \E i, j \in DOMAIN reqs :
        /\ RejectedWith(i, StatusError(403))
        /\ RejectedWith(j, TimeoutError)
        /\ token = Some("t1")
        /\ location = "/dashboard"

\* C6: when the caller of a request answered with 401 observes the
\* rejection, the token is already cleared, the persisted copy removed and
\* the navigation to /login started; and the caller does get the rejection,
\* with that error.
C6_TeardownBeforeRejection ==
    /\ [](\A i \in DOMAIN reqs :
            Rejecting(i, Unauthorized)
                => /\ token = None
                   /\ storage = None
                   /\ location = "/login"
                   /\ navPending)
    /\ [][\A i \in DOMAIN reqs :
            Rejecting(i, Unauthorized)
                => /\ Moves(i, "rejecting", "rejected")
                   /\ reqs'[i].error = Some(Unauthorized)]_vars

C6_Witness ==
    \E i, j \in DOMAIN reqs :
        /\ RejectedWith(i, Unauthorized)
        /\ Carries(j, "t2")
        /\ navPending
        /\ token = None

\* C7: when login() returns, the response's access_token is the in-memory
\* token and the persisted token, and the value returned is the response;
\* a login() that fails performs no setToken.
C7_LoginStoresToken ==
    [][\A i \in DOMAIN reqs : reqs[i].op = "login" =>
          /\ Moves(i, "resolving", "resolved")
                => /\ token' = Some(reqs[i].response[1].access_token)
                   /\ storage' = Some(reqs[i].response[1].access_token)
                   /\ reqs'[i].result =
                          Some([kind |-> "data", data |-> reqs[i].response[1]])
          /\ (Moves(i, "sent", "rejecting") \/ Moves(i, "rejecting", "rejected"))
                => /\ token' \in {token, None}
                   /\ storage' \in {storage, None}
                   /\ lastSet' \in {lastSet, None}
                   /\ cleared' = cleared]_vars

C7_Witness ==
    \E i, j \in DOMAIN reqs :
        /\ reqs[i].op = "login"
        /\ ResolvedWith(i, [kind |-> "data", data |-> AuthResponse("t1")])
        /\ token = Some("t1")
        /\ reqs[j].op = "login"
        /\ RejectedWith(j, StatusError(403))

\* C8: the session state (Authenticated iff a token is held) changes only
\* in setToken, in clearToken, in the setToken of a successful login and in
\* the 401 interception; sending any operation, and the successful response
\* of an operation other than login, leave the token as it is.
Authenticated == token # None

C8_SessionStateChanges ==
    [][/\ (Authenticated' # Authenticated)
            => \/ \E t \in Tokens : SetToken(t)
               \/ ClearToken
               \/ \E i \in DOMAIN reqs :
                     reqs[i].op = "login" /\ Moves(i, "resolving", "resolved")
               \/ \E i \in DOMAIN reqs :
                     /\ Moves(i, "sent", "rejecting")
                     /\ reqs'[i].cause = Some(Unauthorized)
       /\ (Sent # {}) => UNCHANGED <<token, storage>>
       /\ \A i \in DOMAIN reqs :
            (reqs[i].op # "login" /\ (\/ Moves(i, "sent", "resolving")
                                      \/ Moves(i, "resolving", "resolved")))
                => UNCHANGED <<token, storage>>]_vars

C8_Witness ==
    \E i, j \in DOMAIN reqs :
        /\ reqs[i].op = "healthCheck"
        /\ ResolvedWith(i, [kind |-> "data", data |-> [payload |-> "d1"]])
        /\ reqs[j].op = "resolveAnomaly"
        /\ ResolvedWith(j, [kind |-> "true"])
        /\ token = Some("t1")

\* C9: an ApiService constructed by a page load after setToken(t), with no
\* clearToken or 401 in between, starts with token t; one constructed while
\* storage holds no token starts with no token.
C9_TokenSurvivesReload ==
    fresh => /\ lastSet # None => token = lastSet
             /\ storage = None => token = None

C9_Witness ==
    /\ fresh
    /\ lastSet = Some("t1")
    /\ token = Some("t1")
    /\ reqs = << >>

\* C10 as stated: the token is written only by setToken and clearToken calls
\* (the setToken of login() among them), never by the completion of a
\* request.
C10_OnlyExplicitWrites ==
    [][token' # token
          => \/ \E t \in Tokens : SetToken(t)
             \/ ClearToken
             \/ \E i \in DOMAIN reqs :
                   reqs[i].op = "login" /\ Moves(i, "resolving", "resolved")]_vars

\* C10, amended: the token is written only by setToken (the one of a
\* successful login among them), by clearToken and by the 401 interception;
\* no step changes the operation or the credential of a pending request.
C10_WritesAndCredentials ==
    [][/\ token' # token
            => \/ \E t \in Tokens : SetToken(t)
               \/ ClearToken
               \/ \E i \in DOMAIN reqs :
                     reqs[i].op = "login" /\ Moves(i, "resolving", "resolved")
               \/ \E i \in DOMAIN reqs :
                     /\ Moves(i, "sent", "rejecting")
                     /\ reqs'[i].cause = Some(Unauthorized)
       /\ \A i \in Pending :
            /\ i \in DOMAIN reqs' => reqs'[i].op = reqs[i].op
            /\ i \in Pending' => reqs'[i].auth = reqs[i].auth]_vars

C10_Witness ==
    \E i, j \in DOMAIN reqs :
        /\ Carries(i, "t1")
        /\ reqs[i].st = "sent"
        /\ RejectedWith(j, Unauthorized)
        /\ token = None

\* C12: every call of an operation puts exactly one request on the wire and
\* settles once: a step sends at most one request, a request only moves
\* forward (sent, then resolving or rejecting, then resolved or rejected),
\* a failed request is never sent again, a call settles only after its own
\* request was answered, and a settled call never changes.
StageOrder ==
    {<<"sent", "resolving">>, <<"sent", "rejecting">>,
     <<"resolving", "resolved">>, <<"rejecting", "rejected">>}

C12_OneRequestOneSettlement ==
    [][/\ Cardinality(Sent) <= 1
       /\ \A i \in Sent : reqs'[i].st = "sent"
       /\ reqs' # << >> =>
            /\ DOMAIN reqs \subseteq DOMAIN reqs'
            /\ \A i \in DOMAIN reqs :
                 /\ reqs'[i].op = reqs[i].op
                 /\ \/ reqs'[i].st = reqs[i].st
                    \/ <<reqs[i].st, reqs'[i].st>> \in StageOrder
                 /\ reqs[i].st \in {"resolved", "rejected"} => reqs'[i] = reqs[i]
            /\ Cardinality({i \in DOMAIN reqs : reqs'[i].st # reqs[i].st}) <= 1]_vars

C12_Witness ==
    /\ Len(reqs) = 2
    /\ reqs[1].op = reqs[2].op
    /\ RejectedWith(1, NetworkError)
    /\ reqs[2].st = "resolved"

\* C14: resolveAnomaly resolves to true when, and only when, its request
\* succeeded; when the request failed it rejects with the error of the
\* failure and never resolves.
C14_ResolveAnomalyResult ==
    [][\A i \in DOMAIN reqs : reqs[i].op = "resolveAnomaly" =>
          /\ Moves(i, "resolving", "resolved")
                => reqs'[i].result = Some([kind |-> "true"])
          /\ (i \in DOMAIN reqs' /\ reqs[i].st # "resolved"
                                 /\ reqs'[i].st = "resolved")
                => reqs[i].st = "resolving"
          /\ \A err \in Errors :
                Rejecting(i, err)
                    => /\ Moves(i, "rejecting", "rejected")
                       /\ reqs'[i].error = Some(err)
                       /\ reqs'[i].result = None]_vars

C14_Witness ==
    \E i, j \in DOMAIN reqs :
        /\ reqs[i].op = "resolveAnomaly"
        /\ ResolvedWith(i, [kind |-> "true"])
        /\ reqs[j].op = "resolveAnomaly"
        /\ RejectedWith(j, StatusError(403))

\* The token in use is the one a login of this page load stored.
SessionByLogin ==
    /\ Truthy(token)
    /\ lastSet = token
    /\ \E j \in DOMAIN reqs :
          /\ reqs[j].op = "login"
          /\ ResolvedWith(j, [kind |-> "data", data |-> AuthResponse(token[1])])

\* Request i carries a credential other than the one of the token in use
\* (an older one, or none): it was sent before that token was set.
Stale(i) ==
    /\ i \in Pending
    /\ SessionByLogin
    /\ reqs[i].auth # Bearer(token[1])

\* C16 as stated: a 401 answering a request that was sent before the token
\* in use was set leaves that token in memory and in storage.
C16_StaleUnauthorizedIgnored ==
    [][\A i \in DOMAIN reqs :
          (Stale(i) /\ Moves(i, "sent", "rejecting")
                    /\ reqs'[i].cause = Some(Unauthorized))
              => token' = token /\ storage' = storage]_vars

\* C16, amended: a 401 tears the session down whatever credential its
\* request carried; answering a request sent before the token in use was
\* set, it removes that token from memory and from storage all the same.
C16_StaleUnauthorizedTearsDown ==
    [][\A i \in DOMAIN reqs :
          (Stale(i) /\ Moves(i, "sent", "rejecting")
                    /\ reqs'[i].cause = Some(Unauthorized))
              => /\ token' = None
                 /\ storage' = None
                 /\ navPending']_vars

C16_Witness ==
    \E i, j \in DOMAIN reqs :
        /\ reqs[i].op = "login"
        /\ ResolvedWith(i, [kind |-> "data", data |-> AuthResponse("t2")])
        /\ Rejecting(j, Unauthorized)
        /\ reqs[j].auth = Bearer("t1")
        /\ j < i
        /\ token = None
        /\ storage = None

\* C17: a login whose request was sent before clearToken ran (it carries a
\* credential although clearToken has run and setToken has not since) and
\* whose response arrives afterwards leaves the token absent from memory
\* and from storage.
C17_LateLoginStaysLoggedOut ==
    [][\A i \in DOMAIN reqs :
          (cleared /\ reqs[i].op = "login" /\ Moves(i, "resolving", "resolved")
                   /\ reqs[i].auth # None
                   /\ Truthy(Some(reqs[i].response[1].access_token)))
              => token' = None /\ storage' = None]_vars

\* C11 as stated: the credential attached to a request is the token that
\* localStorage holds when the request is sent.
C11_CredentialIsPersistedToken ==
    [][\A i \in Sent :
          reqs'[i].auth = IF storage # None /\ storage[1] # ""
                          THEN Bearer(storage[1]) ELSE None]_vars

\* C11, amended: the persisted token is read when the ApiService is
\* constructed and not again; the credential attached to a request is the
\* in-memory token at the time the request is sent, whatever localStorage
\* holds by then, and a step that writes localStorage changes the
\* in-memory token only to the value it writes.
C11_CredentialIsMemoryToken ==
    /\ [](fresh => token = storage)
    /\ [][/\ \A i \in Sent :
               reqs'[i].auth = IF token # None /\ token[1] # ""
                               THEN Bearer(token[1]) ELSE None
          /\ (storage' # storage /\ token' # token) => token' = storage']_vars

C11_Witness ==
    \E i \in DOMAIN reqs :
        /\ Carries(i, "t1")
        /\ reqs[i].st = "sent"
        /\ token = Some("t1")
        /\ storage = Some("t2")
        /\ lastSet = Some("t1")

\* C18: at startup isAuthenticated becomes true only when a token was found
\* in storage and the healthCheck that followed returned; with no token
\* stored it becomes false and no request is sent; when the healthCheck
\* throws, whatever the error, it becomes false and the token is removed
\* from memory and from storage.
C18_StartupCheck ==
    [][/\ (isLoading /\ isAuthenticated' = Some(TRUE))
            => /\ Truthy(storage)
               /\ \E i \in DOMAIN reqs :
                     /\ reqs[i].op = "healthCheck"
                     /\ Moves(i, "resolving", "resolved")
       /\ (isLoading /\ reqs = << >> /\ ~Truthy(storage))
            => /\ Sent = {}
               /\ isAuthenticated' \in {isAuthenticated, Some(FALSE)}
               /\ ~isLoading' => isAuthenticated' = Some(FALSE)
       /\ \A i \in DOMAIN reqs :
             (isLoading /\ reqs[i].op = "healthCheck"
                        /\ Moves(i, "rejecting", "rejected"))
                => /\ isAuthenticated' = Some(FALSE)
                   /\ token' = None
                   /\ storage' = None]_vars

C18_Witness ==
    /\ ~isLoading
    /\ isAuthenticated = Some(FALSE)
    /\ token = None
    /\ storage = None
    /\ \E i \in DOMAIN reqs :
          /\ reqs[i].op = "healthCheck"
          /\ awaiting[i] = "checkAuth"
          /\ RejectedWith(i, NetworkError)

\* C19: while isAuthenticated is true and no 401 has started the hard
\* navigation to /login, the token is present in memory and in storage;
\* the step in which a login makes the flag true has stored the token the
\* server answered, and the step in which the flag goes from true to false
\* leaves no token in memory or in storage.
C19_FlagFollowsToken ==
    /\ []((IsAuth(isAuthenticated) /\ ~navPending)
            => (token # None /\ storage # None /\ token = storage))
    /\ [][/\ \A i \in DOMAIN reqs :
               (reqs[i].op = "login" /\ Moves(i, "resolving", "resolved")
                                     /\ IsAuth(isAuthenticated'))
                  => /\ token' = Some(reqs[i].response[1].access_token)
                     /\ storage' = token'
          /\ (IsAuth(isAuthenticated) /\ isAuthenticated' = Some(FALSE))
               => (token' = None /\ storage' = None)]_vars

C19_Witness ==
    /\ IsAuth(isAuthenticated)
    /\ ~navPending
    /\ token = Some("t2")
    /\ storage = Some("t2")
    /\ \E i, j \in DOMAIN reqs :
          /\ i < j
          /\ ResolvedWith(i, [kind |-> "data", data |-> AuthResponse("t1")])
          /\ ResolvedWith(j, [kind |-> "data", data |-> AuthResponse("t2")])

\* C20: a protected page (dashboard, metrics, anomalies, logs, CI/CD,
\* tests, settings, chat) is rendered only while isAuthenticated is true
\* and the startup check has finished; while isAuthenticated is false every
\* path ends at the Login view, and while it is true no path renders or
\* ends at the Login view: every path ends at a protected page.
C20_RoutesGuarded ==
    /\ isLoading => View(route, isAuthenticated, isLoading) = "LoadingSpinner"
    /\ ~isLoading => route = Resolve(route, isAuthenticated)
    /\ \A p \in Routes :
          LET v == View(p, isAuthenticated, isLoading)
              r == Resolve(p, isAuthenticated)
          IN  /\ v \in ProtectedPaths => (IsAuth(isAuthenticated) /\ ~isLoading)
              /\ isAuthenticated = Some(FALSE)
                    => /\ ~isLoading
                       /\ View(r, isAuthenticated, isLoading) = "Login"
              /\ (IsAuth(isAuthenticated) /\ ~isLoading)
                    => /\ v # "Login"
                       /\ View(r, isAuthenticated, isLoading) \in ProtectedPaths

C20_Witness ==
    /\ IsAuth(isAuthenticated)
    /\ ~isLoading
    /\ route = "/settings"
    /\ View(route, isAuthenticated, isLoading) = "/settings"
    /\ \E i \in DOMAIN reqs : reqs[i].op = "login" /\ reqs[i].st = "resolved"

\* A step issues a createDataSource or an updateDataSource call.
Issued ==
    \/ ~Loading(createMutation) /\ Loading(createMutation')
    \/ ~Loading(updateMutation) /\ Loading(updateMutation')

\* C13: while the config text of the form is not valid JSON no step issues
\* createDataSource or updateDataSource; the submit that is turned down
\* (the alert comes up) happens only for such text and leaves the fields of
\* the form, editingSource and the visibility of the form as they were.
C13_InvalidConfigRejectedLocally ==
    [][/\ ~ParseJSON(formData.config).ok => ~Issued
       /\ (~alertOpen /\ alertOpen')
             => /\ ~ParseJSON(formData.config).ok
                /\ UNCHANGED <<formData, editingSource, showAddForm>>
                /\ UNCHANGED <<createMutation, updateMutation>>]_vars

C13_Witness ==
    /\ alertOpen
    /\ showAddForm
    /\ editingSource = Some(1)
    /\ formData.name = "src"
    /\ formData.config = "{bad"
    /\ ~Loading(createMutation)
    /\ ~Loading(updateMutation)

C21_FailedLoginRecoverable ==
    [][\A i \in DOMAIN reqs :
          /\ (reqs[i].op = "login" /\ Moves(i, "rejecting", "rejected"))
                => /\ isAuthenticated' = Some(FALSE)
                   /\ ~signingIn'
                   /\ View(route', isAuthenticated', isLoading') = "Login"
                   /\ UNCHANGED <<token, storage>>
          /\ (reqs[i].op = "login" /\ Moves(i, "resolving", "resolved"))
                => /\ IsAuth(isAuthenticated')
                   /\ ~signingIn'
                   /\ token' = Some(reqs[i].response[1].access_token)
                   /\ storage' = token']_vars

C21_Witness ==
    /\ IsAuth(isAuthenticated)
    /\ token = Some("t1")
    /\ \E i, j \in DOMAIN reqs :
          /\ i < j
          /\ reqs[i].op = "login"
          /\ RejectedWith(i, NetworkError)
          /\ ResolvedWith(j, [kind |-> "data", data |-> AuthResponse("t1")])

\* C22: the startup loading state ends - provided the healthCheck request
\* settles, isLoading becomes false - and once it is false isAuthenticated
\* is true or false, not null.
C22_StartupEnds ==
    /\ [](~isLoading => isAuthenticated \in {Some(TRUE), Some(FALSE)})
    /\ isLoading ~> ~isLoading

C22_Witness ==
    /\ ~isLoading
    /\ isAuthenticated = Some(FALSE)
    /\ \E i \in DOMAIN reqs :
          /\ awaiting[i] = "checkAuth"
          /\ RejectedWith(i, TimeoutError)

\* The call of a mutation returns in this step.
Succeeds(mutation, mutationNext) ==
    /\ Loading(mutation)
    /\ mutationNext # None
    /\ mutationNext[1].st = "success"

\* C24: the step in which a create or an update of the form returns leaves
\* the form in its initial state: hidden, editingSource null, the fields at
\* their defaults - whatever the user clicked while the call was under way.
C24_FormInitialAfterSuccess ==
    [][(Succeeds(createMutation, createMutation')
          \/ Succeeds(updateMutation, updateMutation'))
         => /\ ~showAddForm'
            /\ editingSource' = None
            /\ formData' = DefaultForm]_vars

\* C25: a createDataSource or updateDataSource call the form issues carries
\* a config that is a key-value mapping (a JSON object), never an array or
\* another kind of value.
C25_ConfigIsMapping ==
    [][/\ (~Loading(createMutation) /\ Loading(createMutation'))
             => createMutation'[1].config.kind = "object"
       /\ (~Loading(updateMutation) /\ Loading(updateMutation'))
             => updateMutation'[1].config.kind = "object"]_vars

\* C23: the resolved state of an anomaly changes only in the step in which
\* the backend handles a resolveAnomaly call, and only for the anomaly of
\* that call, from unresolved to resolved; and the page issues
\* resolveAnomaly only for an anomaly that the list on screen shows as
\* unresolved.
C23_ResolveOnlyShownUnresolved ==
    [][/\ anomalies' # anomalies
            => /\ resolveMutation # None
               /\ resolveMutation[1].st = "sent"
               /\ resolveMutation' = Served(resolveMutation,
                                            resolveMutation[1].id)
               /\ anomalies' = [anomalies EXCEPT
                                  ![resolveMutation[1].id] = TRUE]
       /\ (~Loading(resolveMutation) /\ Loading(resolveMutation'))
            => /\ AnomaliesShown
               /\ anomalyList # None
               /\ resolveMutation'[1].id \in DOMAIN anomalyList[1]
               /\ ~anomalyList[1][resolveMutation'[1].id]]_vars

C23_Witness ==
    /\ AnomaliesShown
    /\ anomalyList # None
    /\ 1 \in DOMAIN anomalyList[1]
    /\ 2 \in DOMAIN anomalyList[1]
    /\ anomalyList[1][1]
    /\ ~anomalyList[1][2]
    /\ resolveMutation = Settled("success", 1)
    /\ Loading(resolveMutation) = FALSE
    /\ anomalies[1]

\* C26: the chat has at most one conversational query under way, and a
\* step taken while a query is pending, or while the input is empty or
\* holds only whitespace, issues no query and appends no message of the
\* user.
C26_OneQueryInFlight ==
    /\ [](Len(chatPending) <= 1)
    /\ [][(chatIsLoading \/ chatPending # << >> \/ Trim(input) = << >>)
            => /\ Len(chatPending') <= Len(chatPending)
               /\ \A k \in DOMAIN messages' \ DOMAIN messages :
                     messages'[k].sender # "user"]_vars

C26_Witness ==
    /\ chatOpen
    /\ chatIsLoading
    /\ Len(chatPending) = 1
    /\ Sends = 2
    /\ Len(messages) = 4
    /\ messages[2] = User(<<" ", "a", " ">>)
    /\ messages[4].sender = "user"

\* C27: while the chat is on screen its message list only grows; an
\* accepted send appends the message of the user and sets the loading
\* flag; the step that ends a query appends exactly one message of the
\* bot, the reply of the backend or a fixed apology, and clears the loading
\* flag; no other step appends a message of the bot; and a chat that is
\* loading is eventually not loading.
C27_OneBotMessagePerSend ==
    /\ [][chatOpen' =>
            /\ Len(messages') >= Len(messages)
            /\ SubSeq(messages', 1, Len(messages)) = messages
            /\ Len(chatPending') > Len(chatPending)
                  => /\ messages' = Append(messages, User(input))
                     /\ chatIsLoading'
            /\ Len(chatPending') < Len(chatPending)
                  => /\ \E content \in {"reply", Fallback, Apology} :
                           messages' = Append(messages, Bot(content))
                     /\ ~chatIsLoading'
            /\ Len(chatPending') >= Len(chatPending)
                  => \A k \in DOMAIN messages' \ DOMAIN messages :
                        messages'[k].sender # "bot"]_vars
    /\ chatIsLoading ~> ~chatIsLoading

\* C28: the insights sidebar holds at most 10 insights, and when more than
\* 10 were generated since it was last cleared, it holds the 10 generated
\* last, in the order they were generated.
C28_KeepsLastTen ==
    /\ Len(insights) <= 10
    /\ generated > 10
          => /\ Len(insights) = 10
             /\ \A k \in 1..10 : insights[k].id = generated - 10 + k

\* C29: in the score distribution chart every anomaly of the data, whose
\* score is between 0 and 1 inclusive, is in exactly one of the five
\* buckets, and the counts of the buckets sum to the number of anomalies.
C29_EveryScoreCounted ==
    /\ Len(scoreRanges) = 5
    /\ \A k \in DOMAIN data :
          Cardinality({r \in DOMAIN scoreRanges :
                          InRange(scoreRanges[r], data[k])}) = 1
    /\ scoreRanges[1].count + scoreRanges[2].count + scoreRanges[3].count
          + scoreRanges[4].count + scoreRanges[5].count = Len(data)
====
